---- MODULE Spec2Model ----
(***************************************************************************)
(* A model of the wemo-controller service: the server-sent-event           *)
(* broadcaster (event_queues, broadcast_event, the /events generator), the *)
(* WeMo registry (devices) with its request handlers, the Govee registry   *)
(* (govee_devices) with its request handlers, and the edge-worker variant  *)
(* of the Govee endpoints (src/src/worker.py).                             *)
(***************************************************************************)
EXTENDS Integers, Sequences, FiniteSets, TLC

\* ------------------------------------------------------------------ bounds
NSubs == 2        \* /events connections that may be opened
NPubs == 2        \* threads that may be inside broadcast_event at once
MaxEvents == 3    \* broadcast_event calls in one run
NWThreads == 2    \* worker threads serving WeMo requests
MaxObjs == 2      \* device objects pywemo builds in one run
NGThreads == 1    \* worker threads serving Govee requests

\* Queue() at main.py:462 is built with no maxsize: maxsize 0, unbounded.
QueueMaxSize == 0

Subs == 1..NSubs
Pubs == 1..NPubs
EventIds == 1..MaxEvents

\* Who calls broadcast_event: thread 1 is the MQTT network loop (on_mqtt_message,
\* main.py:164), the others are request handlers (main.py:541, 559, 577, 665).
EventTypeOf(p) == IF p = 1 THEN "govee_event" ELSE "wemo_state_change"
EventDataOf(p) == IF p = 1 THEN [deviceId |-> "H6008|dev1"] ELSE [deviceId |-> "S1"]

VARIABLES
  \* ---- event broadcasting (main.py:46-47, 102-115, 455-499)
  event_queues,        \* the list of registered queues (a queue is named by its subscriber)
  event_queues_lock,   \* 0 when free, else the publisher thread holding it
  queue,               \* queue[s]: contents of the Queue object created by generator s
  spc,                 \* spc[s]: where generator s is suspended
  sent,                \* sent[s]: the queued events generator s has yielded to its client, in order
  ppc,                 \* ppc[p]: where thread p is inside broadcast_event
  pevent,              \* pevent[p]: the event record thread p built
  pidx,                \* pidx[p]: position of the for loop over event_queues
  nextId,              \* surrogate of uuid4(): the next fresh timestamp
  \* ---- history of the broadcasts, for the statements about them
  snap,                \* snap[e]: the queues registered when e's publisher took the lock
  closedAtCall,        \* closedAtCall[e]: the generators already closed when e's call began
  doneBefore,          \* doneBefore[e]: the events whose broadcast had returned when e's call began
  completed,           \* the events whose broadcast has returned
  unstarted,           \* unstarted[e]: the generators not yet started when e's broadcast returned
  \* ---- WeMo registry (main.py:33-34, 204-268, 505-610)
  devices,             \* the dict devices, as its items in insertion order
  device_lock,         \* 0 when free, else the thread holding it
  heap,                \* heap[o]: the pywemo device object o (its device, its name attribute)
  nextObj,             \* the next object pywemo builds
  power,               \* power[ph]: the switch state of the physical device ph
  wpc,                 \* wpc[t]: where thread t is in its handler
  wreq,                \* wreq[t]: the request thread t serves
  wdev,                \* wdev[t]: the local variable device of thread t's handler
  wfound,              \* wfound[t]: the local variable found of thread t's discovery
  wresp,               \* wresp[t]: the last response thread t sent
  access,              \* the access the last step made to a registry dict: by whom, where, under its lock or not
  \* ---- Govee registry (main.py:39-41, 274-424, 616-675)
  govee_devices,       \* the dict govee_devices, as its items in insertion order
  govee_lock,          \* 0 when free, else the thread holding it
  gpower,              \* gpower[dev]: the power switch of the device, as the vendor's cloud has it
  gpc,                 \* gpc[t]: where thread t is in its handler
  greq,                \* greq[t]: the request thread t serves, and whether a vendor call made for it failed
  gkeys,               \* gkeys[t]: the local variable keys of the batch
  ginfos,              \* ginfos[t]: the local variable infos of the batch
  gfetched,            \* gfetched[t]: what each state fetch of the batch came to, in order
  gresp,               \* gresp[t]: the response thread t is sending
  \* ---- the edge worker (worker.py): its KV cache and the request it serves
  kv,                  \* the entry "govee_devices" of DEVICES_KV: absent, or the cached list
  kreq,                \* the request being served, and how its vendor calls ended
  kresp,               \* the response being sent
  \* ---- which registry the requests of a behaviour go to
  family               \* "any", or the one deployment and family the requests are addressed to

bvars == <<event_queues, event_queues_lock, queue, spc, sent, ppc, pevent, pidx,
           nextId, snap, closedAtCall, doneBefore, completed, unstarted>>

wvars == <<devices, device_lock, heap, nextObj, power, wpc, wreq, wdev, wfound, wresp>>

gvars == <<govee_devices, govee_lock, gpower, gpc, greq, gkeys, ginfos, gfetched, gresp>>

kvars == <<kv, kreq, kresp>>

vars == <<bvars, wvars, access, gvars, kvars, family>>

NoEvent == [type |-> "none", data |-> [deviceId |-> ""], timestamp |-> 0]

\* ------------------------------------------------------------ sequences
Range(s) == {s[i] : i \in 1..Len(s)}

RECURSIVE Remove(_, _)
\* list.remove(x): drops the first occurrence of x
Remove(s, x) ==
  IF s = <<>> THEN <<>>
  ELSE IF Head(s) = x THEN Tail(s)
  ELSE <<Head(s)>> \o Remove(Tail(s), x)

\* ------------------------------------------------------------ queue.Queue
\* Queue.put_nowait: raises Full only for a bounded queue that is full.
PutNowaitRaises(q) == QueueMaxSize > 0 /\ Len(q) >= QueueMaxSize

\* a queue that hands out the newest item first
PutNowaitFront(q, ev) == <<ev>> \o q

PutNowait(q, ev) == Append(q, ev)

\* a queue bounded to one item, whose Full is swallowed by the except clause
TryPutBoundedToOne(q, ev) == IF Len(q) >= 1 THEN q ELSE Append(q, ev)

\* the body of the for loop of broadcast_event: try: q.put_nowait(event) except: pass
TryPut(q, ev) == IF PutNowaitRaises(q) THEN q ELSE PutNowait(q, ev)

\* Queue.get_nowait on a non-empty queue: the oldest item, and what is left
GetNowaitItem(q) == Head(q)
\* a get that hands out the head and leaves it on the queue
GetNowaitKeepsHead(q) == q
GetNowaitRest(q) == Tail(q)

\* ------------------------------------------------------------------ Init
InitBroadcast ==
  /\ event_queues = <<>>
  /\ event_queues_lock = 0
  /\ queue = [s \in Subs |-> <<>>]
  /\ spc = [s \in Subs |-> "new"]
  /\ sent = [s \in Subs |-> <<>>]
  /\ ppc = [p \in Pubs |-> "idle"]
  /\ pevent = [p \in Pubs |-> NoEvent]
  /\ pidx = [p \in Pubs |-> 0]
  /\ nextId = 1
  /\ snap = [e \in EventIds |-> {}]
  /\ closedAtCall = [e \in EventIds |-> {}]
  /\ doneBefore = [e \in EventIds |-> {}]
  /\ completed = {}
  /\ unstarted = [e \in EventIds |-> {}]

histvars == <<snap, closedAtCall, doneBefore, completed, unstarted>>
pubvars == <<ppc, pevent, pidx, nextId>>

\* ------------------------------------------------- broadcast_event (102-115)
\* lines 104-108: the event record is built, with a fresh uuid4 as its timestamp
BroadcastCall(p) ==
  /\ ppc[p] = "idle"
  /\ nextId <= MaxEvents
  /\ pevent' = [pevent EXCEPT ![p] = [type |-> EventTypeOf(p), data |-> EventDataOf(p),
                                     timestamp |-> nextId]]
  /\ nextId' = nextId + 1
  /\ ppc' = [ppc EXCEPT ![p] = "call"]
  /\ closedAtCall' = [closedAtCall EXCEPT ![nextId] = {s \in Subs : spc[s] = "closed"}]
  /\ doneBefore' = [doneBefore EXCEPT ![nextId] = completed]
  /\ UNCHANGED <<event_queues, event_queues_lock, queue, spc, sent, pidx,
                 snap, completed, unstarted>>

\* line 110: with event_queues_lock
BroadcastLock(p) ==
  /\ ppc[p] = "call"
  /\ event_queues_lock = 0
  /\ event_queues_lock' = p
  /\ ppc' = [ppc EXCEPT ![p] = "loop"]
  /\ pidx' = [pidx EXCEPT ![p] = 1]
  /\ snap' = [snap EXCEPT ![pevent[p].timestamp] = Range(event_queues)]
  /\ UNCHANGED <<event_queues, queue, spc, sent, pevent, nextId,
                 closedAtCall, doneBefore, completed, unstarted>>

\* the loop body as a blocking q.put(event) on a queue bounded to one item
BroadcastPutBlocking(p) ==
  /\ ppc[p] = "loop"
  /\ pidx[p] <= Len(event_queues)
  /\ LET s == event_queues[pidx[p]] IN
       /\ Len(queue[s]) < 1
       /\ queue' = [queue EXCEPT ![s] = Append(queue[s], pevent[p])]
  /\ pidx' = [pidx EXCEPT ![p] = pidx[p] + 1]
  /\ UNCHANGED <<event_queues, event_queues_lock, spc, sent, ppc, pevent, nextId, histvars>>

\* lines 111-115: one iteration of the for loop
BroadcastPut(p) ==
  /\ ppc[p] = "loop"
  /\ pidx[p] <= Len(event_queues)
  /\ LET s == event_queues[pidx[p]] IN
       queue' = [queue EXCEPT ![s] = TryPut(queue[s], pevent[p])]
  /\ pidx' = [pidx EXCEPT ![p] = pidx[p] + 1]
  /\ UNCHANGED <<event_queues, event_queues_lock, spc, sent, ppc, pevent, nextId, histvars>>

\* the loop is exhausted; the with block releases the lock and the call returns
BroadcastReturn(p) ==
  /\ ppc[p] = "loop"
  /\ pidx[p] > Len(event_queues)
  /\ event_queues_lock' = 0
  /\ ppc' = [ppc EXCEPT ![p] = "idle"]
  /\ pidx' = [pidx EXCEPT ![p] = 0]
  /\ completed' = completed \cup {pevent[p].timestamp}
  /\ unstarted' = [unstarted EXCEPT ![pevent[p].timestamp] = {s \in Subs : spc[s] = "new"}]
  /\ pevent' = [pevent EXCEPT ![p] = NoEvent]
  /\ UNCHANGED <<event_queues, queue, spc, sent, nextId, snap, closedAtCall, doneBefore>>

\* ------------------------------------------- events.event_generator (461-497)
\* lines 462-471: the generator starts, registers its queue, yields "connected"
Subscribe(s) ==
  /\ spc[s] = "new"
  /\ event_queues_lock = 0
  /\ event_queues' = Append(event_queues, s)
  /\ spc' = [spc EXCEPT ![s] = "top"]
  /\ UNCHANGED <<event_queues_lock, queue, sent, pubvars, histvars>>

\* lines 475-476: request.is_disconnected() answers True; break
LoopDisconnected(s) ==
  /\ spc[s] = "top"
  /\ spc' = [spc EXCEPT ![s] = "finally"]
  /\ UNCHANGED <<event_queues, event_queues_lock, queue, sent, pubvars, histvars>>

\* lines 479-484: an event is queued; it is dequeued and yielded
LoopDeliver(s) ==
  /\ spc[s] = "top"
  /\ queue[s] # <<>>
  /\ LET ev == GetNowaitItem(queue[s]) IN
       sent' = [sent EXCEPT ![s] = Append(@, [event |-> ev.type, data |-> ev.data,
                                              timestamp |-> ev.timestamp])]
  /\ queue' = [queue EXCEPT ![s] = GetNowaitRest(queue[s])]
  /\ spc' = [spc EXCEPT ![s] = "yield_event"]
  /\ UNCHANGED <<event_queues, event_queues_lock, pubvars, histvars>>

\* lines 480, 485-487: get_nowait raises Empty; the handler starts its sleep
LoopEmpty(s) ==
  /\ spc[s] = "top"
  /\ queue[s] = <<>>
  /\ spc' = [spc EXCEPT ![s] = "sleep"]
  /\ UNCHANGED <<event_queues, event_queues_lock, queue, sent, pubvars, histvars>>

\* line 481: the client took the event; the loop goes round
ResumeAfterEvent(s) ==
  /\ spc[s] = "yield_event"
  /\ spc' = [spc EXCEPT ![s] = "top"]
  /\ UNCHANGED <<event_queues, event_queues_lock, queue, sent, pubvars, histvars>>

\* lines 487-491: the sleep ends, the keepalive is yielded, the loop goes round
Keepalive(s) ==
  /\ spc[s] = "sleep"
  /\ spc' = [spc EXCEPT ![s] = "top"]
  /\ UNCHANGED <<event_queues, event_queues_lock, queue, sent, pubvars, histvars>>

\* the generator without its finally clause: only the break path cleans up
ThrownIntoNoFinally(s) ==
  /\ spc[s] \in {"top", "sleep", "yield_event"}
  /\ spc' = [spc EXCEPT ![s] = IF spc[s] = "yield_event" THEN "sleep" ELSE "closed"]
  /\ UNCHANGED <<event_queues, event_queues_lock, queue, sent, pubvars, histvars>>

\* An exception thrown into the generator where it is suspended (the stream is
\* cancelled or closed). At the yields of lines 468 and 488 and at the awaits of
\* lines 475 and 487 only the finally clause handles it. At the yield of line 481
\* the bare except of line 485 handles it, and the generator goes on to the sleep.
ThrownInto(s) ==
  /\ spc[s] \in {"top", "sleep", "yield_event"}
  /\ spc' = [spc EXCEPT ![s] = IF spc[s] = "yield_event" THEN "sleep" ELSE "finally"]
  /\ UNCHANGED <<event_queues, event_queues_lock, queue, sent, pubvars, histvars>>

\* lines 493-497: if q in event_queues: event_queues.remove(q), under the lock
Unregistered(eq, s) == IF s \in Range(eq) THEN Remove(eq, s) ELSE eq

Cleanup(s) ==
  /\ spc[s] = "finally"
  /\ event_queues_lock = 0
  /\ event_queues' = Unregistered(event_queues, s)
  /\ spc' = [spc EXCEPT ![s] = "closed"]
  /\ UNCHANGED <<event_queues_lock, queue, sent, pubvars, histvars>>

NextBroadcast ==
  \/ \E p \in Pubs : BroadcastCall(p)
  \/ \E p \in Pubs : BroadcastLock(p)
  \/ \E p \in Pubs : BroadcastPut(p)
  \/ \E p \in Pubs : BroadcastReturn(p)
  \/ \E s \in Subs : Subscribe(s)
  \/ \E s \in Subs : LoopDisconnected(s)
  \/ \E s \in Subs : LoopDeliver(s)
  \/ \E s \in Subs : LoopEmpty(s)
  \/ \E s \in Subs : ResumeAfterEvent(s)
  \/ \E s \in Subs : Keepalive(s)
  \/ \E s \in Subs : ThrownInto(s)
  \/ \E s \in Subs : Cleanup(s)


\* ====================================================================
\* WeMo registry and its handlers
\* ====================================================================
WThreads == 1..NWThreads
Objs == 1..MaxObjs

\* The devices on the network: lamp reports a serial number, fan reports none.
Phys == {"lamp", "fan"}
SerialOf(ph) == IF ph = "lamp" THEN "S1" ELSE ""
NetworkName(ph) == ph

\* what pywemo.discover_devices() may return
FoundLists == {<<>>, <<"lamp">>, <<"fan">>, <<"lamp", "fan">>}

\* the {device_id} of a request path, and the name of a rename body
WKeys == {"S1", "fan", "den", "hall"}
BodyNames == {"den", " hall ", "   "}
\* str.strip() on the bodies above
Strip(n) == IF n = " hall " THEN "hall" ELSE IF n = "   " THEN "" ELSE n

WActions == {"on", "off", "toggle"}

\* ---------------------------------------------------------------- dict
\* A dict is the sequence of its items in insertion order; 0 stands for None.
DictHas(d, k) == \E i \in 1..Len(d) : d[i].k = k
\* a lookup that falls back on the first device of the dict
DictGetOrFirst(d, k) ==
  IF d = <<>> THEN 0
  ELSE IF DictHas(d, k) THEN d[CHOOSE i \in 1..Len(d) : d[i].k = k].v ELSE d[1].v
DictGet(d, k) == IF DictHas(d, k) THEN d[CHOOSE i \in 1..Len(d) : d[i].k = k].v ELSE 0
\* an assignment that adds an item even when the key is already there
DictSetAppend(d, k, v) == Append(d, [k |-> k, v |-> v])
DictSet(d, k, v) ==
  IF DictHas(d, k)
  THEN [i \in 1..Len(d) |-> IF d[i].k = k THEN [k |-> k, v |-> v] ELSE d[i]]
  ELSE Append(d, [k |-> k, v |-> v])
DictPop(d, k) == SelectSeq(d, LAMBDA it : it.k # k)
DictKeys(d) == [i \in 1..Len(d) |-> d[i].k]
DictValues(d) == [i \in 1..Len(d) |-> d[i].v]

\* ------------------------------------------------------------- objects
NoObject == [phys |-> "none", name |-> ""]

\* getattr(d, "serialnumber", None) or d.name
KeyOf(h, o) == IF SerialOf(h[o].phys) # "" THEN SerialOf(h[o].phys) ELSE h[o].name

\* wemo_device_to_info (get_state and insight_params are taken to answer)
DeviceInfo(h, pw, o) == [id |-> KeyOf(h, o), name |-> h[o].name, state |-> pw[h[o].phys]]

DeviceInfos(h, pw, os) == [i \in 1..Len(os) |-> DeviceInfo(h, pw, os[i])]

RECURSIVE StoreAllFoundOnly(_, _, _)
\* a store that keeps only the devices found this time
StoreAllFoundOnly(d, h, found) ==
  IF found = <<>> THEN <<>>
  ELSE DictSet(StoreAllFoundOnly(d, h, SubSeq(found, 1, Len(found) - 1)),
               KeyOf(h, found[Len(found)]), found[Len(found)])

RECURSIVE StoreAll(_, _, _)
\* the for loop of _store_wemo_devices: devices[serial] = d for each d found
StoreAll(d, h, found) ==
  IF found = <<>> THEN d
  ELSE StoreAll(DictSet(d, KeyOf(h, Head(found)), Head(found)), h, Tail(found))

NoRequest == [op |-> "none", device_id |-> "", name |-> "", popped |-> 0]
NoResponse == [status |-> 0, op |-> "none", device_id |-> "", body |-> <<>>]
NoAccess == [by |-> 0, line |-> 0, locked |-> TRUE, holder |-> 0]

InitWemo ==
  /\ devices = <<>>
  /\ device_lock = 0
  /\ heap = [o \in Objs |-> NoObject]
  /\ nextObj = 1
  /\ power = [ph \in Phys |-> 0]
  /\ wpc = [t \in WThreads |-> "idle"]
  /\ wreq = [t \in WThreads |-> NoRequest]
  /\ wdev = [t \in WThreads |-> 0]
  /\ wfound = [t \in WThreads |-> <<>>]
  /\ wresp = [t \in WThreads |-> NoResponse]

\* the handler of thread t returns or raises: its locals are gone
Respond(t, status, op, id, body) ==
  /\ wresp' = [wresp EXCEPT ![t] = [status |-> status, op |-> op, device_id |-> id, body |-> body]]
  /\ wpc' = [wpc EXCEPT ![t] = "done"]
  /\ wreq' = [wreq EXCEPT ![t] = NoRequest]
  /\ wdev' = [wdev EXCEPT ![t] = 0]
  /\ wfound' = [wfound EXCEPT ![t] = <<>>]

\* ------------------------------------------ POST /discover (505-515, 204-227)
\* line 225: pywemo builds a fresh object for each device that answered
WDiscover(t) ==
  /\ wpc[t] = "idle"
  /\ \E found \in FoundLists :
       /\ nextObj + Len(found) - 1 <= MaxObjs
       /\ heap' = [o \in Objs |->
                     IF o >= nextObj /\ o < nextObj + Len(found)
                     THEN [phys |-> found[o - nextObj + 1],
                           name |-> NetworkName(found[o - nextObj + 1])]
                     ELSE heap[o]]
       /\ wfound' = [wfound EXCEPT ![t] = [i \in 1..Len(found) |-> nextObj + i - 1]]
       /\ nextObj' = nextObj + Len(found)
  /\ wpc' = [wpc EXCEPT ![t] = "store"]
  /\ wreq' = [wreq EXCEPT ![t] = [NoRequest EXCEPT !.op = "discover"]]
  /\ access' = NoAccess
  /\ UNCHANGED <<devices, device_lock, power, wdev, wresp, bvars, gvars, kvars, family>>

\* lines 512-514: pywemo.discover_devices() raises
WDiscoverFails(t) ==
  /\ wpc[t] = "idle"
  /\ Respond(t, 500, "discover", "", <<>>)
  /\ access' = NoAccess
  /\ UNCHANGED <<devices, device_lock, heap, nextObj, power, bvars, gvars, kvars, family>>

\* lines 206-216: the for loop, under device_lock
WStore(t) ==
  /\ wpc[t] = "store"
  /\ device_lock = 0
  /\ devices' = StoreAll(devices, heap, wfound[t])
  /\ wpc' = [wpc EXCEPT ![t] = "store_return"]
  /\ access' = [by |-> t, line |-> 216, locked |-> TRUE, holder |-> t]
  /\ UNCHANGED <<device_lock, heap, nextObj, power, wreq, wdev, wfound, wresp, bvars, gvars, kvars, family>>

\* line 217, after the with block has released the lock, then line 515
WStoreReturn(t) ==
  /\ wpc[t] = "store_return"
  /\ access' = [by |-> t, line |-> 217, locked |-> device_lock = t, holder |-> device_lock]
  /\ Respond(t, 200, "discover", "", DeviceInfos(heap, power, DictValues(devices)))
  /\ UNCHANGED <<devices, device_lock, heap, nextObj, power, bvars, gvars, kvars, family>>

\* ------------------------------------------------- GET /devices (518-525)
WList(t) ==
  /\ wpc[t] = "idle"
  /\ device_lock = 0
  /\ access' = [by |-> t, line |-> 524, locked |-> TRUE, holder |-> t]
  /\ Respond(t, 200, "list", "", DeviceInfos(heap, power, DictValues(devices)))
  /\ UNCHANGED <<devices, device_lock, heap, nextObj, power, bvars, gvars, kvars, family>>

\* ------------------------------------ GET /devices/{device_id} (528-531)
WGet(t) ==
  /\ wpc[t] = "idle"
  /\ device_lock = 0
  /\ \E id \in WKeys :
       LET device == DictGet(devices, id) IN
         IF device = 0
         THEN Respond(t, 404, "get", id, <<>>)
         ELSE Respond(t, 200, "get", id, <<DeviceInfo(heap, power, device)>>)
  /\ access' = [by |-> t, line |-> 232, locked |-> TRUE, holder |-> t]
  /\ UNCHANGED <<devices, device_lock, heap, nextObj, power, bvars, gvars, kvars, family>>

\* --------------------- POST /devices/{device_id}/on|off|toggle (534-585)
\* get_wemo_device_or_404 (230-235)
WControlLookup(t) ==
  /\ wpc[t] = "idle"
  /\ device_lock = 0
  /\ \E id \in WKeys : \E a \in WActions :
       LET device == DictGet(devices, id) IN
         IF device = 0
         THEN Respond(t, 404, a, id, <<>>)
         ELSE /\ wdev' = [wdev EXCEPT ![t] = device]
              /\ wreq' = [wreq EXCEPT ![t] = [NoRequest EXCEPT !.op = a, !.device_id = id]]
              /\ wpc' = [wpc EXCEPT ![t] = "control"]
              /\ UNCHANGED <<wfound, wresp>>
  /\ access' = [by |-> t, line |-> 232, locked |-> TRUE, holder |-> t]
  /\ UNCHANGED <<devices, device_lock, heap, nextObj, power, bvars, gvars, kvars, family>>

Switched(a, old) == IF a = "on" THEN 1 ELSE IF a = "off" THEN 0 ELSE 1 - old

\* broadcast_event run to its end by a handler: the event on every registered queue
Broadcast(ev) ==
  /\ event_queues_lock = 0
  /\ nextId <= MaxEvents
  /\ queue' = [s \in Subs |-> IF s \in Range(event_queues) THEN TryPut(queue[s], ev) ELSE queue[s]]
  /\ nextId' = nextId + 1
  /\ snap' = [snap EXCEPT ![nextId] = Range(event_queues)]
  /\ closedAtCall' = [closedAtCall EXCEPT ![nextId] = {s \in Subs : spc[s] = "closed"}]
  /\ doneBefore' = [doneBefore EXCEPT ![nextId] = completed]
  /\ completed' = completed \cup {nextId}
  /\ unstarted' = [unstarted EXCEPT ![nextId] = {s \in Subs : spc[s] = "new"}]
  /\ UNCHANGED <<event_queues, event_queues_lock, spc, sent, ppc, pevent, pidx>>

\* lines 537-549: the device call, the info, the broadcast, the response
WControl(t) ==
  /\ wpc[t] = "control"
  /\ LET ph == heap[wdev[t]].phys
         pw == [power EXCEPT ![ph] = Switched(wreq[t].op, power[ph])]
     IN /\ power' = pw
        /\ Broadcast([type |-> "wemo_state_change",
                      data |-> [deviceId |-> wreq[t].device_id],
                      timestamp |-> nextId])
        /\ Respond(t, 200, wreq[t].op, wreq[t].device_id, <<DeviceInfo(heap, pw, wdev[t])>>)
  /\ access' = NoAccess
  /\ UNCHANGED <<devices, device_lock, heap, nextObj, gvars, kvars, family>>

\* lines 546-548: the device call raises
WControlFails(t) ==
  /\ wpc[t] = "control"
  /\ Respond(t, 500, wreq[t].op, wreq[t].device_id, <<>>)
  /\ access' = NoAccess
  /\ UNCHANGED <<devices, device_lock, heap, nextObj, power, bvars, gvars, kvars, family>>

\* ------------------------------ POST /devices/{device_id}/rename (588-610)
\* lines 593-595: the stripped name is empty
WRenameEmpty(t) ==
  /\ wpc[t] = "idle"
  /\ \E id \in WKeys : \E body \in BodyNames :
       /\ Strip(body) = ""
       /\ Respond(t, 400, "rename", id, <<>>)
  /\ access' = NoAccess
  /\ UNCHANGED <<devices, device_lock, heap, nextObj, power, bvars, gvars, kvars, family>>

\* line 597: get_wemo_device_or_404 (230-235)
WRenameLookup(t) ==
  /\ wpc[t] = "idle"
  /\ device_lock = 0
  /\ \E id \in WKeys : \E body \in BodyNames :
       /\ Strip(body) # ""
       /\ LET device == DictGet(devices, id) IN
            IF device = 0
            THEN Respond(t, 404, "rename", id, <<>>)
            ELSE /\ wdev' = [wdev EXCEPT ![t] = device]
                 /\ wreq' = [wreq EXCEPT ![t] = [NoRequest EXCEPT !.op = "rename",
                                                  !.device_id = id, !.name = Strip(body)]]
                 /\ wpc' = [wpc EXCEPT ![t] = "set_name"]
                 /\ UNCHANGED <<wfound, wresp>>
  /\ access' = [by |-> t, line |-> 232, locked |-> TRUE, holder |-> t]
  /\ UNCHANGED <<devices, device_lock, heap, nextObj, power, bvars, gvars, kvars, family>>

\* line 600: device.name = new_name
WRenameSetName(t) ==
  /\ wpc[t] = "set_name"
  /\ heap' = [heap EXCEPT ![wdev[t]].name = wreq[t].name]
  /\ wpc' = [wpc EXCEPT ![t] = "pop"]
  /\ access' = NoAccess
  /\ UNCHANGED <<devices, device_lock, nextObj, power, wreq, wdev, wfound, wresp, bvars, gvars, kvars, family>>

\* lines 601-603: the assignment raises
WRenameSetNameFails(t) ==
  /\ wpc[t] = "set_name"
  /\ Respond(t, 500, "rename", wreq[t].device_id, <<>>)
  /\ access' = NoAccess
  /\ UNCHANGED <<devices, device_lock, heap, nextObj, power, bvars, gvars, kvars, family>>

\* lines 605-606: the lock is taken; devices.pop(device_id, None)
WRenamePop(t) ==
  /\ wpc[t] = "pop"
  /\ device_lock = 0
  /\ device_lock' = t
  /\ wreq' = [wreq EXCEPT ![t].popped = DictGet(devices, wreq[t].device_id)]
  /\ devices' = DictPop(devices, wreq[t].device_id)
  /\ wpc' = [wpc EXCEPT ![t] = "insert"]
  /\ access' = [by |-> t, line |-> 606, locked |-> TRUE, holder |-> t]
  /\ UNCHANGED <<heap, nextObj, power, wdev, wfound, wresp, bvars, gvars, kvars, family>>

\* the new key taken to be the new name, whatever the device's serial number
NewKeyIsName(h, device) == h[device].name

\* lines 607-608: new_key = serialnumber or name; devices[new_key] = device
NewKey(h, device) == KeyOf(h, device)

WRenameInsert(t) ==
  /\ wpc[t] = "insert"
  /\ device_lock = t
  /\ devices' = DictSet(devices, NewKey(heap, wdev[t]), wdev[t])
  /\ device_lock' = 0
  /\ wpc' = [wpc EXCEPT ![t] = "rename_return"]
  /\ access' = [by |-> t, line |-> 608, locked |-> device_lock = t, holder |-> device_lock]
  /\ UNCHANGED <<heap, nextObj, power, wreq, wdev, wfound, wresp, bvars, gvars, kvars, family>>

\* line 610
WRenameReturn(t) ==
  /\ wpc[t] = "rename_return"
  /\ Respond(t, 200, "rename", wreq[t].device_id, <<DeviceInfo(heap, power, wdev[t])>>)
  /\ access' = NoAccess
  /\ UNCHANGED <<devices, device_lock, heap, nextObj, power, bvars, gvars, kvars, family>>

\* the response has gone out; the thread is free for the next request
WFinish(t) ==
  /\ wpc[t] = "done"
  /\ wpc' = [wpc EXCEPT ![t] = "idle"]
  /\ wresp' = [wresp EXCEPT ![t] = NoResponse]
  /\ access' = NoAccess
  /\ UNCHANGED <<devices, device_lock, heap, nextObj, power, wreq, wdev, wfound, bvars, gvars, kvars, family>>

\* the steps of the handlers that read or change the registry
RegistryStep(t) ==
  \/ WFinish(t)
  \/ WDiscover(t)
  \/ WDiscoverFails(t)
  \/ WStore(t)
  \/ WStoreReturn(t)
  \/ WList(t)
  \/ WGet(t)
  \/ WRenameEmpty(t)
  \/ WRenameLookup(t)
  \/ WRenameSetName(t)
  \/ WRenameSetNameFails(t)
  \/ WRenamePop(t)
  \/ WRenameInsert(t)
  \/ WRenameReturn(t)

\* the steps of the handlers that switch a device
ControlStep(t) ==
  \/ WControlLookup(t)
  \/ WControl(t)
  \/ WControlFails(t)

WemoStep(t) == RegistryStep(t) \/ ControlStep(t)

NextWemo == \E t \in WThreads : RegistryStep(t)

\* ====================================================================
\* Govee registry and its handlers (main.py)
\* ====================================================================
GThreads == 1..NGThreads

\* A string of a request path or of a key is held as its pieces between the "|"
\* characters: <<"H6008", "dev1">> is "H6008|dev1", <<"H6008dev1">> has no "|".
\* f"{sku}|{dev}" (317, 351)
CompositeKey(sku, dev) == <<sku, dev>>

\* a split that keeps the model and addresses the first device of the account
SplitToFirstDevice(id) == <<id[1], "dev1">>

\* device_id.split("|", 1) (371, 405): at most two pieces, the rest kept whole
SplitOnce(id) == IF Len(id) <= 2 THEN id ELSE <<id[1], Tail(id)>>

\* what the vendor's cloud may list for the account
R1 == [sku |-> "H6008", device |-> "dev1"]
R2 == [sku |-> "H6008", device |-> "dev2"]
GoveeLists == {<<>>, <<R1>>, <<R2>>, <<R1, R2>>}
GDevs == {"dev1", "dev2"}

\* the {device_id} and {action} of a request path
GIds == {<<"H6008", "dev1">>, <<"H6008", "dev2">>, <<"H6008dev1">>}
GActions == {"on", "OFF", "dim"}
\* str.lower() on the actions above
Lower(a) == IF a = "OFF" THEN "off" ELSE a

\* how a call to the vendor may end: HTTP 2xx with code 200, HTTP not ok, or
\* HTTP 2xx with a payload whose code is not 200
VendorOutcomes == {"ok", "http_error", "bad_code"}

\* lines 312-318: govee_devices.clear(), then govee_devices[key] = d for each d
RECURSIVE InsertAll(_, _)
InsertAll(d, data) ==
  IF data = <<>> THEN d
  ELSE InsertAll(DictSet(d, CompositeKey(Head(data).sku, Head(data).device), Head(data)),
                 Tail(data))

StoreDiscovered(d, data) == InsertAll(<<>>, data)

\* _govee_state_from_payload (323-357): value 1 is on, 0 is off
PowerState(value) == IF value = 1 THEN "on" ELSE IF value = 0 THEN "off" ELSE "unknown"

GoveeDeviceInfo(sku, dev, value) ==
  [id |-> CompositeKey(sku, dev), model |-> sku, device |-> dev, state |-> PowerState(value)]

NoGoveeRequest == [op |-> "none", device_id |-> <<>>, action |-> "", upstream_failed |-> FALSE]
NoGoveeResponse == [status |-> 0, op |-> "none", body |-> <<>>]

InitGovee ==
  /\ govee_devices = <<>>
  /\ govee_lock = 0
  /\ gpower = [dv \in GDevs |-> 0]
  /\ gpc = [t \in GThreads |-> "idle"]
  /\ greq = [t \in GThreads |-> NoGoveeRequest]
  /\ gkeys = [t \in GThreads |-> <<>>]
  /\ ginfos = [t \in GThreads |-> <<>>]
  /\ gfetched = [t \in GThreads |-> <<>>]
  /\ gresp = [t \in GThreads |-> NoGoveeResponse]

\* the handler of thread t returns or raises
GRespond(t, status, op, body) ==
  /\ gresp' = [gresp EXCEPT ![t] = [status |-> status, op |-> op, body |-> body]]
  /\ gpc' = [gpc EXCEPT ![t] = "done"]

\* -------------------------------------- POST /govee/discover (616-635)
\* lines 621-625 around govee_discover_devices (297-320): the vendor call fails,
\* govee_request or line 309 raises HTTPException(502), and the except clause of
\* line 623 turns it into a 500
GDiscoverFails(t) ==
  /\ gpc[t] = "idle"
  /\ \E out \in VendorOutcomes \ {"ok"} :
       greq' = [greq EXCEPT ![t] = [NoGoveeRequest EXCEPT !.op = "discover",
                                                           !.upstream_failed = TRUE]]
  /\ GRespond(t, 500, "discover", <<>>)
  /\ access' = NoAccess
  /\ UNCHANGED <<govee_devices, govee_lock, gpower, gkeys, ginfos, gfetched, bvars, wvars, kvars, family>>

\* lines 305-320: the vendor lists the devices; they replace the registry under
\* govee_lock; the values are then read outside the with block (320)
GDiscover(t) ==
  /\ gpc[t] = "idle"
  /\ govee_lock = 0
  /\ \E data \in GoveeLists : govee_devices' = StoreDiscovered(govee_devices, data)
  /\ greq' = [greq EXCEPT ![t] = [NoGoveeRequest EXCEPT !.op = "discover"]]
  /\ gpc' = [gpc EXCEPT ![t] = "keys"]
  /\ access' = [by |-> t, line |-> 320, locked |-> govee_lock = t, holder |-> govee_lock]
  /\ UNCHANGED <<govee_lock, gpower, gkeys, ginfos, gfetched, gresp, bvars, wvars, kvars, family>>

\* ---------------------------------------- GET /govee/devices (638-654)
\* line 643: the registry is not empty (read outside the lock): no discovery
GListCached(t) ==
  /\ gpc[t] = "idle"
  /\ govee_devices # <<>>
  /\ greq' = [greq EXCEPT ![t] = [NoGoveeRequest EXCEPT !.op = "list"]]
  /\ gpc' = [gpc EXCEPT ![t] = "keys"]
  /\ access' = [by |-> t, line |-> 643, locked |-> govee_lock = t, holder |-> govee_lock]
  /\ UNCHANGED <<govee_devices, govee_lock, gpower, gkeys, ginfos, gfetched, gresp, bvars, wvars, kvars, family>>

\* lines 643-644: the registry is empty; govee_discover_devices fills it
GListDiscovers(t) ==
  /\ gpc[t] = "idle"
  /\ govee_devices = <<>>
  /\ govee_lock = 0
  /\ \E data \in GoveeLists : govee_devices' = StoreDiscovered(govee_devices, data)
  /\ greq' = [greq EXCEPT ![t] = [NoGoveeRequest EXCEPT !.op = "list"]]
  /\ gpc' = [gpc EXCEPT ![t] = "keys"]
  /\ access' = [by |-> t, line |-> 320, locked |-> govee_lock = t, holder |-> govee_lock]
  /\ UNCHANGED <<govee_lock, gpower, gkeys, ginfos, gfetched, gresp, bvars, wvars, kvars, family>>

\* lines 643-644: the registry is empty and the vendor call fails: the
\* HTTPException(502) of govee_discover_devices leaves the handler as it is
GListDiscoverFails(t) ==
  /\ gpc[t] = "idle"
  /\ govee_devices = <<>>
  /\ \E out \in VendorOutcomes \ {"ok"} :
       greq' = [greq EXCEPT ![t] = [NoGoveeRequest EXCEPT !.op = "list",
                                                           !.upstream_failed = TRUE]]
  /\ GRespond(t, 502, "list", <<>>)
  /\ access' = [by |-> t, line |-> 643, locked |-> govee_lock = t, holder |-> govee_lock]
  /\ UNCHANGED <<govee_devices, govee_lock, gpower, gkeys, ginfos, gfetched, bvars, wvars, kvars, family>>

\* ------------------------------ the batch of both handlers (627-635, 646-654)
\* lines 628-629, 647-648: keys = list(govee_devices.keys()), under govee_lock
GKeys(t) ==
  /\ gpc[t] = "keys"
  /\ govee_lock = 0
  /\ gkeys' = [gkeys EXCEPT ![t] = DictKeys(govee_devices)]
  /\ ginfos' = [ginfos EXCEPT ![t] = <<>>]
  /\ gfetched' = [gfetched EXCEPT ![t] = <<>>]
  /\ gpc' = [gpc EXCEPT ![t] = "batch"]
  /\ access' = [by |-> t, line |-> 629, locked |-> TRUE, holder |-> t]
  /\ UNCHANGED <<govee_devices, govee_lock, gpower, greq, gresp, bvars, wvars, kvars, family>>

\* what the except clause of lines 633-634 and 652-653 does with a device whose
\* state fetch raised: nothing is appended
AfterFailedFetch(infos, key) == infos

\* one turn of the for loop: govee_get_state(key) (360-384) inside try/except
GFetch(t) ==
  /\ gpc[t] = "batch"
  /\ Len(gfetched[t]) < Len(gkeys[t])
  /\ govee_lock = 0
  /\ LET key == gkeys[t][Len(gfetched[t]) + 1]
         found == DictHas(govee_devices, key)
         sku == SplitOnce(key)[1]
         dev == SplitOnce(key)[2]
     IN IF ~found
        THEN \* line 369: HTTPException(404), caught by the batch
             /\ ginfos' = [ginfos EXCEPT ![t] = AfterFailedFetch(ginfos[t], key)]
             /\ gfetched' = [gfetched EXCEPT ![t] = Append(@, [key |-> key, ok |-> FALSE, state |-> ""])]
             /\ UNCHANGED greq
        ELSE \E out \in VendorOutcomes :
               IF out = "ok"
               THEN /\ ginfos' = [ginfos EXCEPT ![t] =
                                    Append(@, GoveeDeviceInfo(sku, dev, gpower[dev]))]
                    /\ gfetched' = [gfetched EXCEPT ![t] =
                                      Append(@, [key |-> key, ok |-> TRUE,
                                                 state |-> PowerState(gpower[dev])])]
                    /\ UNCHANGED greq
               ELSE \* govee_request or line 381 raises HTTPException(502), caught
                    /\ ginfos' = [ginfos EXCEPT ![t] = AfterFailedFetch(ginfos[t], key)]
                    /\ gfetched' = [gfetched EXCEPT ![t] =
                                      Append(@, [key |-> key, ok |-> FALSE, state |-> ""])]
                    /\ greq' = [greq EXCEPT ![t].upstream_failed = TRUE]
  /\ access' = [by |-> t, line |-> 367, locked |-> TRUE, holder |-> t]
  /\ UNCHANGED <<govee_devices, govee_lock, gpower, gpc, gkeys, gresp, bvars, wvars, kvars, family>>

\* lines 635, 654: return infos
GBatchReturn(t) ==
  /\ gpc[t] = "batch"
  /\ Len(gfetched[t]) = Len(gkeys[t])
  /\ GRespond(t, 200, greq[t].op, ginfos[t])
  /\ access' = NoAccess
  /\ UNCHANGED <<govee_devices, govee_lock, gpower, greq, gkeys, ginfos, gfetched, bvars, wvars, kvars, family>>

\* ------------------- POST /govee/devices/{device_id}/{action} (657-675)
\* lines 396-398: the action is neither on nor off
GControlBadAction(t) ==
  /\ gpc[t] = "idle"
  /\ \E id \in GIds : \E a \in GActions :
       /\ Lower(a) \notin {"on", "off"}
       /\ greq' = [greq EXCEPT ![t] = [NoGoveeRequest EXCEPT !.op = "control",
                                                           !.device_id = id, !.action = a]]
  /\ GRespond(t, 400, "control", <<>>)
  /\ access' = NoAccess
  /\ UNCHANGED <<govee_devices, govee_lock, gpower, gkeys, ginfos, gfetched, bvars, wvars, kvars, family>>

\* lines 400-403: the lookup under govee_lock; 404 for a key not in the registry
GControlLookup(t) ==
  /\ gpc[t] = "idle"
  /\ govee_lock = 0
  /\ \E id \in GIds : \E a \in GActions :
       /\ Lower(a) \in {"on", "off"}
       /\ greq' = [greq EXCEPT ![t] = [NoGoveeRequest EXCEPT !.op = "control",
                                                           !.device_id = id, !.action = a]]
       /\ IF ~DictHas(govee_devices, id)
          THEN GRespond(t, 404, "control", <<>>)
          ELSE /\ gpc' = [gpc EXCEPT ![t] = "control_call"]
               /\ UNCHANGED gresp
  /\ access' = [by |-> t, line |-> 401, locked |-> TRUE, holder |-> t]
  /\ UNCHANGED <<govee_devices, govee_lock, gpower, gkeys, ginfos, gfetched, bvars, wvars, kvars, family>>

\* lines 405-422: the control call; govee_request raises on an HTTP status that is
\* not ok, and the payload of an ok answer is not looked at
GControlCall(t) ==
  /\ gpc[t] = "control_call"
  /\ LET dev == SplitOnce(greq[t].device_id)[2]
         value == IF Lower(greq[t].action) = "on" THEN 1 ELSE 0
     IN \E out \in VendorOutcomes :
          CASE out = "ok" ->
                 /\ gpower' = [gpower EXCEPT ![dev] = value]
                 /\ gpc' = [gpc EXCEPT ![t] = "control_state"]
                 /\ UNCHANGED <<greq, gresp>>
            [] out = "bad_code" ->
                 /\ greq' = [greq EXCEPT ![t].upstream_failed = TRUE]
                 /\ gpc' = [gpc EXCEPT ![t] = "control_state"]
                 /\ UNCHANGED <<gpower, gresp>>
            [] out = "http_error" ->
                 /\ greq' = [greq EXCEPT ![t].upstream_failed = TRUE]
                 /\ GRespond(t, 502, "control", <<>>)
                 /\ UNCHANGED gpower
  /\ access' = NoAccess
  /\ UNCHANGED <<govee_devices, govee_lock, gkeys, ginfos, gfetched, bvars, wvars, kvars, family>>

\* line 424: govee_get_state(device_id) (360-384) does not answer with a state
GControlStateFails(t) ==
  /\ gpc[t] = "control_state"
  /\ govee_lock = 0
  /\ IF ~DictHas(govee_devices, greq[t].device_id)
     THEN /\ GRespond(t, 404, "control", <<>>)
          /\ UNCHANGED greq
     ELSE /\ \E out \in VendorOutcomes \ {"ok"} :
               greq' = [greq EXCEPT ![t].upstream_failed = TRUE]
          /\ GRespond(t, 502, "control", <<>>)
  /\ access' = [by |-> t, line |-> 367, locked |-> TRUE, holder |-> t]
  /\ UNCHANGED <<govee_devices, govee_lock, gpower, gkeys, ginfos, gfetched, bvars, wvars, kvars, family>>

\* lines 424, 663-670: the state is read back, broadcast and returned
GControlState(t) ==
  /\ gpc[t] = "control_state"
  /\ govee_lock = 0
  /\ DictHas(govee_devices, greq[t].device_id)
  /\ LET sku == SplitOnce(greq[t].device_id)[1]
         dev == SplitOnce(greq[t].device_id)[2]
     IN GRespond(t, 200, "control", <<GoveeDeviceInfo(sku, dev, gpower[dev])>>)
  /\ Broadcast([type |-> "govee_state_change",
                data |-> [deviceId |-> greq[t].device_id],
                timestamp |-> nextId])
  /\ access' = [by |-> t, line |-> 367, locked |-> TRUE, holder |-> t]
  /\ UNCHANGED <<govee_devices, govee_lock, gpower, greq, gkeys, ginfos, gfetched, wvars, kvars, family>>

\* the response has gone out; the thread is free for the next request
GFinish(t) ==
  /\ gpc[t] = "done"
  /\ gpc' = [gpc EXCEPT ![t] = "idle"]
  /\ greq' = [greq EXCEPT ![t] = NoGoveeRequest]
  /\ gkeys' = [gkeys EXCEPT ![t] = <<>>]
  /\ ginfos' = [ginfos EXCEPT ![t] = <<>>]
  /\ gfetched' = [gfetched EXCEPT ![t] = <<>>]
  /\ gresp' = [gresp EXCEPT ![t] = NoGoveeResponse]
  /\ access' = NoAccess
  /\ UNCHANGED <<govee_devices, govee_lock, gpower, bvars, wvars, kvars, family>>

GoveeStep(t) ==
  \/ GFinish(t)
  \/ GDiscoverFails(t)
  \/ GDiscover(t)
  \/ GListCached(t)
  \/ GListDiscovers(t)
  \/ GListDiscoverFails(t)
  \/ GKeys(t)
  \/ GFetch(t)
  \/ GBatchReturn(t)
  \/ GControlBadAction(t)
  \/ GControlLookup(t)
  \/ GControlCall(t)
  \/ GControlStateFails(t)
  \/ GControlState(t)

NextGovee == \E t \in GThreads : GoveeStep(t)

\* ====================================================================
\* The edge worker's Govee endpoints (worker.py)
\* ====================================================================
\* govee_request (52-72) returns response.json() whatever the HTTP status: a call
\* ends with code 200, with a JSON body whose code is not 200 (HTTP ok or not), or
\* with a body that is no JSON, on which response.json() raises.
WorkerOutcomes == {"ok", "bad_code", "http_error", "not_json"}

NotCached == [cached |-> FALSE, devices |-> <<>>]
NoWorkerRequest == [op |-> "none", device_id |-> <<>>, action |-> "", calls |-> <<>>]
NoWorkerResponse == [status |-> 0, op |-> "none", body |-> <<>>]

InitWorker ==
  /\ kv = NotCached
  /\ kreq = NoWorkerRequest
  /\ kresp = NoWorkerResponse

\* lines 112-120, 183-191: the power state read from a state answer
WorkerPowerState(out, value) ==
  IF out = "ok" THEN (IF value = 1 THEN "on" ELSE "off") ELSE "unknown"

\* lines 94-143, 165-213: the entry of one device of the batch; a fetch that failed
\* or raised still gives an entry, with state unknown
WorkerEntry(d, out) ==
  [id |-> CompositeKey(d.sku, d.device), model |-> d.sku, device |-> d.device,
   state |-> WorkerPowerState(out, gpower[d.device])]

WorkerBatch(ds, outs) == [i \in 1..Len(ds) |-> WorkerEntry(ds[i], outs[i])]

\* the answers the vendor may give to the state fetches of a batch over ds
BatchOutcomes(ds) == [1..Len(ds) -> WorkerOutcomes]

WorkerRespond(status, op, body) ==
  kresp' = [status |-> status, op |-> op, body |-> body]

\* govee_discover (75-148) from its first line
WorkerDiscoverBody(op) ==
  \E out \in WorkerOutcomes :
    CASE out = "ok" ->
           \E data \in GoveeLists : \E outs \in BatchOutcomes(data) :
             /\ kv' = [cached |-> TRUE, devices |-> data]
             /\ kreq' = [NoWorkerRequest EXCEPT !.op = op, !.calls = <<out>> \o outs]
             /\ WorkerRespond(200, op, WorkerBatch(data, outs))
      [] out \in {"bad_code", "http_error"} ->
           /\ kreq' = [NoWorkerRequest EXCEPT !.op = op, !.calls = <<out>>]
           /\ WorkerRespond(502, op, <<>>)
           /\ UNCHANGED kv
      [] out = "not_json" ->
           /\ kreq' = [NoWorkerRequest EXCEPT !.op = op, !.calls = <<out>>]
           /\ WorkerRespond(500, op, <<>>)
           /\ UNCHANGED kv

\* POST /govee/discover (33-34, 75-148)
WorkerDiscover ==
  /\ kreq.op = "none"
  /\ WorkerDiscoverBody("discover")
  /\ UNCHANGED <<bvars, wvars, family, access, gvars>>

\* GET /govee/devices with nothing cached (157-159): the discovery runs
WorkerListDiscovers ==
  /\ kreq.op = "none"
  /\ ~kv.cached
  /\ WorkerDiscoverBody("list")
  /\ UNCHANGED <<bvars, wvars, family, access, gvars>>

\* GET /govee/devices from the cache (161-215)
WorkerListCached ==
  /\ kreq.op = "none"
  /\ kv.cached
  /\ \E outs \in BatchOutcomes(kv.devices) :
       /\ kreq' = [NoWorkerRequest EXCEPT !.op = "list", !.calls = outs]
       /\ WorkerRespond(200, "list", WorkerBatch(kv.devices, outs))
  /\ UNCHANGED <<kv, bvars, wvars, family, access, gvars>>

\* POST /govee/devices/{id}/{action}: lines 224-230, the action or the id is refused
WorkerControlRefused ==
  /\ kreq.op = "none"
  /\ \E id \in GIds : \E a \in GActions :
       /\ Lower(a) \notin {"on", "off"} \/ Len(id) # 2
       /\ kreq' = [NoWorkerRequest EXCEPT !.op = "control", !.device_id = id, !.action = a]
       /\ WorkerRespond(400, "control", <<>>)
  /\ UNCHANGED <<kv, bvars, wvars, family, access, gvars>>

\* lines 232-287: the control call, then the state fetch; only an answer that
\* is no JSON stops the handler (500)
WorkerControl ==
  /\ kreq.op = "none"
  /\ \E id \in GIds : \E a \in GActions : \E c \in WorkerOutcomes : \E f \in WorkerOutcomes :
       /\ Lower(a) \in {"on", "off"}
       /\ Len(id) = 2
       /\ LET sku == id[1]
              dev == id[2]
              value == IF Lower(a) = "on" THEN 1 ELSE 0
              pw == IF c = "ok" THEN [gpower EXCEPT ![dev] = value] ELSE gpower
          IN /\ gpower' = pw
             /\ IF c = "not_json"
                THEN /\ kreq' = [NoWorkerRequest EXCEPT !.op = "control", !.device_id = id,
                                                        !.action = a, !.calls = <<c>>]
                     /\ WorkerRespond(500, "control", <<>>)
                ELSE /\ kreq' = [NoWorkerRequest EXCEPT !.op = "control", !.device_id = id,
                                                        !.action = a, !.calls = <<c, f>>]
                     /\ IF f = "not_json"
                        THEN WorkerRespond(500, "control", <<>>)
                        ELSE WorkerRespond(200, "control",
                               <<[id |-> id, model |-> sku, device |-> dev,
                                  state |-> WorkerPowerState(f, pw[dev])]>>)
  /\ UNCHANGED <<kv, bvars, wvars, family, access, govee_devices, govee_lock, gpc, greq, gkeys,
                 ginfos, gfetched, gresp>>

\* line 90: expirationTtl=3600; the cached entry expires
WorkerExpire ==
  /\ kv.cached
  /\ kv' = NotCached
  /\ UNCHANGED <<kreq, kresp, bvars, wvars, family, access, gvars>>

\* the response has gone out
WorkerFinish ==
  /\ kreq.op # "none"
  /\ kreq' = NoWorkerRequest
  /\ kresp' = NoWorkerResponse
  /\ UNCHANGED <<kv, bvars, wvars, family, access, gvars>>

NextWorker ==
  \/ WorkerDiscover
  \/ WorkerListDiscovers
  \/ WorkerListCached
  \/ WorkerControlRefused
  \/ WorkerControl
  \/ WorkerExpire
  \/ WorkerFinish

\* ====================================================================
\* Specifications
\* ====================================================================
\* the broadcaster alone: publishers and /events generators
InitAll == InitBroadcast /\ InitWemo /\ InitGovee /\ InitWorker /\ access = NoAccess

Init == InitAll /\ family = "any"

Next == NextBroadcast /\ UNCHANGED <<wvars, access, gvars, kvars, family>>

Spec == Init /\ [][Next]_vars

\* the delivery loop of generator s goes on: the awaits of lines 475 and 487 return
\* and the client takes what is yielded
LoopStep(s) ==
  /\ LoopDeliver(s) \/ LoopEmpty(s) \/ ResumeAfterEvent(s) \/ Keepalive(s)
  /\ UNCHANGED <<wvars, access, gvars, kvars, family>>

\* thread p runs broadcast_event from its first line to its last
Publish(p) ==
  /\ Broadcast([type |-> EventTypeOf(p), data |-> EventDataOf(p), timestamp |-> nextId])
  /\ UNCHANGED <<wvars, access, gvars, kvars, family>>

\* the generators step by step, the broadcasts each in one step
DeliveryStep ==
  \/ \E p \in Pubs : Publish(p)
  \/ \E s \in Subs : LoopStep(s)
  \/ /\ \E s \in Subs : Subscribe(s) \/ LoopDisconnected(s) \/ ThrownInto(s) \/ Cleanup(s)
     /\ UNCHANGED <<wvars, access, gvars, kvars, family>>

\* the delivery loops, with every loop going on as long as it can
SpecLive == Init /\ [][DeliveryStep]_vars /\ \A s \in Subs : WF_vars(LoopStep(s))

InitW == Init

\* the WeMo handlers that read or change the registry, on concurrent threads
SpecWemo == InitW /\ [][NextWemo]_vars

\* every WeMo handler, one request at a time
SpecWemoSeq == InitW /\ [][WemoStep(1)]_vars

\* the Govee handlers of main.py
SpecGovee == Init /\ [][NextGovee]_vars

\* the Govee handlers of main.py, with clients that open /events connections
GoveeEventsStep ==
  \/ NextGovee
  \/ \E s \in Subs : Subscribe(s) /\ UNCHANGED <<wvars, access, gvars, kvars, family>>

SpecGoveeEvents == Init /\ [][GoveeEventsStep]_vars

\* the Govee endpoints of the edge worker
SpecWorker == Init /\ [][NextWorker]_vars

\* the three registries (the dict devices, the dict govee_devices, the worker's KV
\* entry), each under the requests of its own endpoints: the WeMo registry under
\* concurrent registry requests and under every request one at a time
Families == {"wemo", "wemo_one_at_a_time", "govee", "worker"}

InitRegistries == InitAll /\ family \in Families

NextRegistries ==
  \/ family = "wemo" /\ NextWemo
  \/ family = "wemo_one_at_a_time" /\ WemoStep(1)
  \/ family = "govee" /\ NextGovee
  \/ family = "worker" /\ NextWorker

SpecRegistries == InitRegistries /\ [][NextRegistries]_vars

\* ====================================================================
\* Statements about the broadcaster
\* ====================================================================
Timestamps(seq) == [i \in 1..Len(seq) |-> seq[i].timestamp]

\* what generator s has been handed so far: what it yielded, then what is queued
Stream(s) == Timestamps(sent[s]) \o Timestamps(queue[s])

Occurrences(seq, x) == Cardinality({i \in 1..Len(seq) : seq[i] = x})

Receivers(e) == {s \in Subs : Occurrences(Stream(s), e) > 0}

Position(seq, x) == CHOOSE i \in 1..Len(seq) : seq[i] = x

Started == 1..(nextId - 1)

\* C1: a broadcast that has returned has put its event, once, on exactly the queues
\* that were registered when it took the list (its lock); a generator closed before
\* the call began never gets the event, and neither does one that starts after the
\* broadcast returned (no replay).
C1_DeliveredIffRegistered ==
  /\ \A e \in completed :
       /\ Receivers(e) = snap[e]
       /\ \A s \in Subs : Occurrences(Stream(s), e) <= 1
       /\ unstarted[e] \cap Receivers(e) = {}
  /\ \A e \in Started :
       /\ closedAtCall[e] \cap Receivers(e) = {}
       /\ Receivers(e) \subseteq snap[e]

\* C1 witness: one broadcast returned having delivered while another generator was
\* already closed, and one returned before a generator that has started since.
C1_Witness ==
  /\ \E e \in completed : snap[e] # {} /\ closedAtCall[e] # {}
  /\ \E e \in completed : snap[e] # {} /\ \E s \in unstarted[e] : spc[s] = "top"

\* a registered generator that has been handed events and has dequeued none
Stalled(t) == spc[t] \notin {"new", "closed"} /\ sent[t] = <<>> /\ Len(queue[t]) >= 2

\* C2: a thread inside the loop of broadcast_event can always take its next step,
\* whatever the queues hold, and a broadcast that returned while some generator was
\* stalled has still reached every other queue registered for it.
C2_Isolation ==
  /\ \A p \in Pubs : ppc[p] = "loop" => ENABLED (BroadcastPut(p) \/ BroadcastReturn(p))
  /\ \A t \in Subs : Stalled(t) =>
       \A e \in completed : \A s \in snap[e] \ {t} : Occurrences(Stream(s), e) = 1

\* C2 witness: a stalled generator holds every event, and another generator that
\* shared those broadcasts has yielded two of them to its client.
C2_Witness ==
  \E t \in Subs : \E s \in Subs \ {t} :
    /\ Stalled(t)
    /\ Len(sent[s]) >= 2
    /\ \E e \in completed : {s, t} \subseteq snap[e]

C4_PerSubscriberFifo ==
  \A s \in Subs : \A e2 \in Started : \A e1 \in doneBefore[e2] :
    (Occurrences(Stream(s), e1) > 0 /\ Occurrences(Stream(s), e2) > 0)
      => Position(Stream(s), e1) < Position(Stream(s), e2)

\* C4 witness: a generator has yielded two events of broadcasts that followed one
\* another, while a third broadcast overlapped the second.
C4_Witness ==
  \E s \in Subs : \E e2 \in Started : \E e1 \in doneBefore[e2] : \E e3 \in Started \ {e1, e2} :
    /\ Occurrences(Timestamps(sent[s]), e1) > 0
    /\ Occurrences(Timestamps(sent[s]), e2) > 0
    /\ e2 \notin doneBefore[e3] /\ e3 \notin doneBefore[e2]

\* ====================================================================
\* Statements about the WeMo registry
\* ====================================================================
\* thread t's rename takes its last step on the registry: the reinsertion
RenameCommits(t) == wpc[t] = "insert" /\ wpc'[t] = "rename_return"

HasSerial(o) == SerialOf(heap[o].phys) # ""

\* C5 as the spec states it: after a rename of a registered key, get(oldKey) is a
\* 404 and get(new name) returns the renamed device, whatever key the device has.
C5_RenameMovesKey ==
  [][\A t \in WThreads : RenameCommits(t) =>
        /\ DictGet(devices', wreq[t].device_id) = 0
        /\ DictGet(devices', wreq[t].name) = wdev[t]]_vars

\* C5 amended: with requests served one at a time, after a rename of a registered
\* key the device carries the new name; a device without serial number is then found
\* under the new name and, unless that is the old key, no longer under the old key;
\* a device with a serial number stays under its serial number, the key it had, and
\* the entry under the new name, if any, is left as it was.
C5_RenameKeepsSerialKey ==
  [][\A t \in WThreads : RenameCommits(t) =>
        LET d == wdev[t]
            old == wreq[t].device_id
            new == wreq[t].name
        IN /\ heap'[d].name = new
           /\ IF HasSerial(d)
              THEN /\ old = SerialOf(heap[d].phys)
                   /\ DictGet(devices', old) = d
                   /\ DictGet(devices', new) = DictGet(devices, new)
              ELSE /\ DictGet(devices', new) = d
                   /\ old # new => DictGet(devices', old) = 0]_vars

\* C5 witness: a rename of the device keyed by its serial number has just been
\* committed, and an earlier rename moved the device without serial number from
\* its first key to its new name.
C5_Witness ==
  /\ wpc[1] = "rename_return"
  /\ HasSerial(wdev[1])
  /\ DictGet(devices, "S1") = wdev[1]
  /\ heap[wdev[1]].name = "hall"
  /\ DictGet(devices, "den") # 0
  /\ ~DictHas(devices, "fan")

\* C7 as the spec states it: a rename whose key is gone when it reaches
\* devices.pop leaves the registry as it is.
C7_RenameOfAbsentKeyIsNoOp ==
  [][\A t \in WThreads : (RenameCommits(t) /\ wreq[t].popped = 0) => devices' = devices]_vars

\* C8 as the spec states it: every read and every change of the dict devices is made
\* by a thread that holds device_lock.
C8_AccessUnderLock == access.locked

\* ====================================================================
\* Statements about the three registries
\* ====================================================================
KeySet(d) == {d[i].k : i \in 1..Len(d)}

Cached(c) == {c.devices[i] : i \in 1..Len(c.devices)}

\* thread t's rename removes the key it was asked to rename
RenamePops(t) == wpc[t] = "pop" /\ wpc'[t] = "insert"

\* no key leaves the dict devices but by the pop of a rename of that key
WemoKeysStay ==
  \A k \in KeySet(devices) \ KeySet(devices') :
    \E t \in WThreads : RenamePops(t) /\ wreq[t].device_id = k

\* thread t stores the answer of a discovery asked for by POST /govee/discover
GoveeRediscovers(t) ==
  gpc[t] = "idle" /\ gpc'[t] = "keys" /\ greq'[t].op = "discover"

\* C6 as the spec states it: a key of a registry stays in it until a rename of that
\* key removes it; no discovery, list, get or control removes a key.
C6_NeverEvictedExceptByRename ==
  [][/\ WemoKeysStay
     /\ KeySet(govee_devices) \subseteq KeySet(govee_devices')
     /\ Cached(kv) \subseteq Cached(kv')]_vars

\* C6 amended: a key leaves the dict devices only by the pop of a rename of that key.
\* A key leaves the dict govee_devices only when a POST /govee/discover stores the
\* vendor's answer, which replaces the whole dict. A device leaves the worker's
\* cached list only when a discovery that the vendor answered overwrites the entry,
\* or when the entry expires, and then the whole entry is gone.
C6_EvictedByRenameOrRediscovery ==
  [][/\ WemoKeysStay
     /\ ~(KeySet(govee_devices) \subseteq KeySet(govee_devices')) =>
          \E t \in GThreads : GoveeRediscovers(t) /\ DictValues(govee_devices') \in GoveeLists
     /\ ~(Cached(kv) \subseteq Cached(kv')) =>
          \/ kv'.cached /\ kreq.op = "none" /\ kreq'.op = "discover" /\ kresp'.status = 200
          \/ kv' = NotCached /\ UNCHANGED <<kreq, kresp>>]_vars

\* C6 witness: dev1 has been switched on through its key, and the registry a
\* POST /govee/discover has just stored holds dev2 and no longer dev1.
C6_Witness ==
  /\ gpc[1] = "keys"
  /\ greq[1].op = "discover"
  /\ gpower["dev1"] = 1
  /\ ~DictHas(govee_devices, CompositeKey("H6008", "dev1"))
  /\ DictHas(govee_devices, CompositeKey("H6008", "dev2"))

\* ====================================================================
\* Statements about the Govee endpoints
\* ====================================================================
\* C9 as the spec states it: once a vendor call made for a request has failed (HTTP
\* status not ok, or a payload whose code is not 200), the request is over and its
\* response is a 502.
C9_UpstreamFailureIs502 ==
  \A t \in GThreads :
    greq[t].upstream_failed => gpc[t] = "done" /\ gresp[t].status = 502

\* C10 as the spec states it: the response of a discover or list batch has exactly
\* one entry for each key of the batch; the entry of a device whose state fetch
\* failed says unknown, the entry of any other device says the state fetched.
C10_BatchReportsEveryKey ==
  \A t \in GThreads :
    (gpc[t] = "done" /\ gresp[t].status = 200 /\ gresp[t].op \in {"discover", "list"}) =>
      /\ Len(gresp[t].body) = Len(gkeys[t])
      /\ \A i \in 1..Len(gkeys[t]) :
           \E j \in 1..Len(gresp[t].body) :
             /\ gresp[t].body[j].id = gkeys[t][i]
             /\ gresp[t].body[j].state =
                  IF gfetched[t][i].ok THEN gfetched[t][i].state ELSE "unknown"

\* ====================================================================
\* Statements about requests for a key that is not registered
\* ====================================================================
\* thread t takes the first step of a request: its operation and its device key
Begins(t) == wpc[t] = "idle" /\ wpc'[t] # "idle"
BegunOp(t) == IF wpc'[t] = "done" THEN wresp'[t].op ELSE wreq'[t].op
BegunId(t) == IF wpc'[t] = "done" THEN wresp'[t].device_id ELSE wreq'[t].device_id

\* thread t begins an on, off, toggle or rename for a key that is not in devices
BeginsOnUnknownKey(t) ==
  /\ Begins(t)
  /\ BegunOp(t) \in WActions \cup {"rename"}
  /\ ~DictHas(devices, BegunId(t))

\* the step leaves the registry, the devices and the event queues as they were,
\* and has built no event
NoEffect ==
  /\ devices' = devices
  /\ heap' = heap
  /\ power' = power
  /\ queue' = queue
  /\ nextId' = nextId

\* C11 as the spec states it: on, off, toggle or rename for a key that is not in
\* the WeMo registry is answered 404 and has no effect.
C11_UnknownKeyIs404 ==
  [][\A t \in WThreads : BeginsOnUnknownKey(t) =>
        /\ wpc'[t] = "done"
        /\ wresp'[t].status = 404
        /\ NoEffect]_vars

\* C11 amended: on, off, toggle or rename for a key that is not in the WeMo registry
\* ends at once and has no effect; the answer is 404, except that a rename whose
\* name is blank is answered 400 before the key is looked up.
C11_UnknownKeyIs404Or400 ==
  [][\A t \in WThreads : BeginsOnUnknownKey(t) =>
        /\ wpc'[t] = "done"
        /\ \/ wresp'[t].status = 404
           \/ wresp'[t].status = 400 /\ wresp'[t].op = "rename"
        /\ NoEffect]_vars

\* C11 witness: with the lamp registered under S1 and switched on, a toggle for
\* the key den, which is not registered, has been answered 404.
C11_Witness ==
  /\ wpc[1] = "done"
  /\ wresp[1].op = "toggle"
  /\ wresp[1].device_id = "den"
  /\ wresp[1].status = 404
  /\ DictHas(devices, "S1")
  /\ ~DictHas(devices, "den")
  /\ power["lamp"] = 1

\* ====================================================================
\* Statements about the Govee control endpoint
\* ====================================================================
\* the device id is a composite key: a model and a device with one "|" between
WellFormed(id) == Len(id) = 2

\* C12 as the spec states it: a control request whose action is neither on nor off,
\* or whose device id is not a composite model|device key, is answered 400.
C12_InvalidInputIs400 ==
  \A t \in GThreads :
    (/\ gpc[t] = "done"
     /\ greq[t].op = "control"
     /\ Lower(greq[t].action) \notin {"on", "off"} \/ ~WellFormed(greq[t].device_id)) =>
      gresp[t].status = 400

\* thread t takes a step of a control request whose key it found in the registry
ControlActs(t) == gpc[t] \in {"control_call", "control_state"} /\ gpc'[t] # gpc[t]

\* thread t answers its control request with a 200
ControlSucceeds(t) == ControlActs(t) /\ gpc'[t] = "done" /\ gresp'[t].status = 200

\* the event a control of key K broadcasts
StateChangeEvent(K) ==
  [type |-> "govee_state_change", data |-> [deviceId |-> K], timestamp |-> nextId]

\* thread t's control command has been accepted by the vendor
ControlAccepted(t) ==
  ControlActs(t) /\ gpc[t] = "control_call" /\ gpc'[t] = "control_state"
                 /\ ~greq'[t].upstream_failed

\* C13: a control request for a registered key K leaves the registry as it is and
\* switches no device but K's; the command the vendor accepts puts K's device in
\* the state asked for. When the request is answered 200, the answer is the state
\* the vendor then has for K's device, and exactly one govee_state_change event with
\* deviceId K has been put on every registered queue; when it is not, no event has
\* been built.
C13_ControlTouchesOnlyTarget ==
  [][\A t \in GThreads : ControlActs(t) =>
        LET K == greq[t].device_id
            dev == K[2]
        IN /\ WellFormed(K)
           /\ govee_devices' = govee_devices
           /\ \A d \in GDevs \ {dev} : gpower'[d] = gpower[d]
           /\ ControlAccepted(t) => PowerState(gpower'[dev]) = Lower(greq[t].action)
           /\ IF ControlSucceeds(t)
              THEN /\ Len(gresp'[t].body) = 1
                   /\ gresp'[t].body[1].id = K
                   /\ gresp'[t].body[1].state = PowerState(gpower[dev])
                   /\ nextId' = nextId + 1
                   /\ \A s \in Subs :
                        queue'[s] = IF s \in Range(event_queues)
                                    THEN Append(queue[s], StateChangeEvent(K))
                                    ELSE queue[s]
              ELSE /\ queue' = queue
                   /\ nextId' = nextId]_vars

\* C13 witness: with H6008|dev1 and H6008|dev2 registered and a client listening, an
\* on for H6008|dev1 has been answered 200 with state on; dev2 is still off, and the
\* client's queue holds the one event, for H6008|dev1.
C13_Witness ==
  /\ gpc[1] = "done"
  /\ gresp[1].status = 200
  /\ greq[1].op = "control"
  /\ greq[1].device_id = CompositeKey("H6008", "dev1")
  /\ greq[1].action = "on"
  /\ gresp[1].body[1].state = "on"
  /\ DictHas(govee_devices, CompositeKey("H6008", "dev1"))
  /\ DictHas(govee_devices, CompositeKey("H6008", "dev2"))
  /\ gpower["dev2"] = 0
  /\ event_queues = <<1>>
  /\ Len(queue[1]) = 1
  /\ queue[1][1].type = "govee_state_change"
  /\ queue[1][1].data.deviceId = CompositeKey("H6008", "dev1")

\* ====================================================================
\* Statements about storing and listing WeMo devices
\* ====================================================================
\* the key under which a discovered device is to be found: its serial number, or
\* its name when it has none
DerivedKey(o) == IF SerialOf(heap[o].phys) # "" THEN SerialOf(heap[o].phys) ELSE heap[o].name

\* thread t stores what its discovery found
Stores(t) == wpc[t] = "store" /\ wpc'[t] = "store_return"

\* thread t answers GET /devices
Lists(t) == wpc[t] = "idle" /\ wpc'[t] = "done" /\ wresp'[t].op = "list"

\* the device stored last under key k among those found
LastFound(found, k) ==
  found[CHOOSE i \in 1..Len(found) :
          /\ DerivedKey(found[i]) = k
          /\ \A j \in (i + 1)..Len(found) : DerivedKey(found[j]) # k]

\* C14: storing the devices found adds their derived keys (serial number, else name)
\* to the registry and nothing else; under each of these keys is the device stored
\* last under it, and every other key keeps its device. GET /devices answers with
\* exactly one record for each key of the registry, the record of the device that
\* is under that key.
C14_ListIsLatestPerKey ==
  [][\A t \in WThreads :
       /\ Stores(t) =>
            LET found == wfound[t]
                keys == {DerivedKey(found[i]) : i \in 1..Len(found)}
            IN /\ KeySet(devices') = KeySet(devices) \cup keys
               /\ Len(devices') = Cardinality(KeySet(devices'))
               /\ \A k \in KeySet(devices') :
                    DictGet(devices', k) = IF k \in keys THEN LastFound(found, k)
                                           ELSE DictGet(devices, k)
       /\ Lists(t) =>
            LET body == wresp'[t].body
            IN /\ wresp'[t].status = 200
               /\ Len(body) = Cardinality(KeySet(devices))
               /\ \A k \in KeySet(devices) :
                    \E j \in 1..Len(body) :
                      /\ body[j].id = k
                      /\ body[j] = DeviceInfo(heap, power, DictGet(devices, k))]_vars

\* C14 witness: the fan and then the lamp were discovered and stored, and
\* GET /devices has answered with two records, one under the lamp's serial number
\* and one under the fan's name.
C14_Witness ==
  /\ wpc[1] = "done"
  /\ wresp[1].op = "list"
  /\ Len(wresp[1].body) = 2
  /\ wresp[1].body[1].id = "fan"
  /\ wresp[1].body[2].id = "S1"
  /\ DictKeys(devices) = <<"fan", "S1">>

\* ====================================================================
\* Statements about the delivery loop
\* ====================================================================
\* what the generator yields for a queued event (482-483)
Emitted(ev) == [event |-> ev.type, data |-> ev.data, timestamp |-> ev.timestamp]

\* generator s, at the top of its loop, goes into the try of line 479
Iterates(s) == spc[s] = "top" /\ spc'[s] \in {"yield_event", "sleep"}

\* one iteration of the loop of generator s, step by step: with an event queued, the
\* head and only the head leaves the queue and is yielded with its type and data;
\* with none, the queue is left alone and the generator sleeps; the client taking
\* the event, and the keepalive after the sleep, lead back to the top of the loop
\* and neither takes nor yields a queued event.
IterationStep(s) ==
  /\ Iterates(s) =>
       IF queue[s] # <<>>
       THEN /\ spc'[s] = "yield_event"
            /\ queue'[s] = Tail(queue[s])
            /\ sent'[s] = Append(sent[s], Emitted(Head(queue[s])))
       ELSE /\ spc'[s] = "sleep"
            /\ queue'[s] = queue[s]
            /\ sent'[s] = sent[s]
  /\ (spc[s] \in {"yield_event", "sleep"} /\ spc'[s] = "top") =>
       /\ queue'[s] = queue[s]
       /\ sent'[s] = sent[s]

\* the event with timestamp e is on the queue of s; s has yielded it
Queued(s, e) == \E i \in 1..Len(queue[s]) : queue[s][i].timestamp = e
Yielded(s, e) == \E i \in 1..Len(sent[s]) : sent[s][i].timestamp = e

KeysOf(o) == {k \in KeySet(devices) : DictGet(devices, k) = o}

\* no request is being served
Quiescent == \A t \in WThreads : wpc[t] \in {"idle", "done"}

\* C16 as the spec implies it: once every request has completed, a registered device
\* without serial number is stored under exactly one key, and that key is its name.
C16_OneKeyEqualToName ==
  Quiescent =>
    \A o \in Objs : (~HasSerial(o) /\ KeysOf(o) # {}) => KeysOf(o) = {heap[o].name}

====
